---- MODULE Spec2Model ----
(***************************************************************************)
(* Model of utils/generos_onehot.py: the genre parser, the adult-genre     *)
(* filter, the one-hot encoder, the cache loader and the aggregation by    *)
(* year.                                                                   *)
(*                                                                         *)
(* A Python str is a sequence of one-character strings, so that strip,     *)
(* split, the literal parser, the ordering of labels and the CSV text are  *)
(* computed character by character, as the code and its libraries do.      *)
(***************************************************************************)
EXTENDS Integers, Sequences, FiniteSets, TLC

VARIABLES
    catalog,          \* the rows of the catalog file at caminho_dataset
    caminho_onehot,   \* the cache path handed to the loader
    dirs,             \* the directories that exist
    arquivo,          \* the file at caminho_onehot: NoFile or CSV text
    matriz,           \* the matrix that was persisted in arquivo
    origem,           \* who wrote arquivo: "none", "stale" or "compute"
    retornado,               \* the table the loader returned last
    ret,              \* the outcome of the last call
    editado,          \* the catalog changed since the last loader call
    arg,              \* the input of a pure function under check
    res,              \* its output
    pc                \* the position of a pure-function run

vars ==
    <<catalog, caminho_onehot, dirs, arquivo, matriz, origem, retornado, ret,
      editado, arg, res, pc>>

sysVars ==
    <<catalog, caminho_onehot, dirs, arquivo, matriz, origem, retornado, ret,
      editado>>

pureVars == <<arg, res, pc>>

----------------------------------------------------------------------------
(* Text *)

Range(s) == {s[i] : i \in DOMAIN s}

Min(S) == CHOOSE x \in S : \A y \in S : x <= y

\* The characters of the model, in ascending code-point order.
Ascii ==
    << "\t", "\n", "\r", " ", "\"", "'", ",", ".", "/",
       "0", "1", "2", "3", "4", "5", "6", "7", "8", "9", ":",
       "A", "B", "C", "D", "E", "F", "G", "H", "I", "J", "K", "L", "M",
       "N", "O", "P", "Q", "R", "S", "T", "U", "V", "W", "X", "Y", "Z",
       "[", "]",
       "a", "b", "c", "d", "e", "f", "g", "h", "i", "j", "k", "l", "m",
       "n", "o", "p", "q", "r", "s", "t", "u", "v", "w", "x", "y", "z" >>

\* The rank of a character: ord() up to an order-preserving renumbering.
Code(c) == CHOOSE i \in DOMAIN Ascii : Ascii[i] = c

Letters == {Ascii[i] : i \in 21..46} \cup {Ascii[i] : i \in 49..74}

Digits == {Ascii[i] : i \in 10..19}

\* str.strip() without argument strips whitespace.
Whitespace == {" ", "\t", "\n", "\r"}

QuoteChars == {"'", "\""}

RECURSIVE LStrip(_, _)
LStrip(s, cs) ==
    IF s # <<>> /\ Head(s) \in cs THEN LStrip(Tail(s), cs) ELSE s

RECURSIVE RStrip(_, _)
RStrip(s, cs) ==
    IF s # <<>> /\ s[Len(s)] \in cs THEN RStrip(SubSeq(s, 1, Len(s) - 1), cs)
    ELSE s

\* str.strip(chars)
Strip(s, cs) == RStrip(LStrip(s, cs), cs)

\* The first index j >= i with s[j] = c, or 0.
FindChar(s, i, c) ==
    LET J == {j \in i..Len(s) : s[j] = c}
    IN IF J = {} THEN 0 ELSE Min(J)

\* str.split(sep) for a one-character sep: always at least one piece.
RECURSIVE Split(_, _)
Split(s, sep) ==
    LET j == FindChar(s, 1, sep)
    IN IF j = 0 THEN <<s>>
       ELSE <<SubSeq(s, 1, j - 1)>> \o Split(SubSeq(s, j + 1, Len(s)), sep)

\* Python's order of str: by code point, a proper prefix first.
RECURSIVE LexLess(_, _)
LexLess(a, b) ==
    IF b = <<>> THEN FALSE
    ELSE IF a = <<>> THEN TRUE
    ELSE IF Head(a) = Head(b) THEN LexLess(Tail(a), Tail(b))
    ELSE Code(Head(a)) < Code(Head(b))

\* sorted(S) for a set of str.
RECURSIVE Sorted(_)
Sorted(S) ==
    IF S = {} THEN <<>>
    ELSE LET m == CHOOSE x \in S : \A y \in S \ {x} : LexLess(x, y)
         IN <<m>> \o Sorted(S \ {m})

----------------------------------------------------------------------------
(* Labels and the denylist *)

Ecchi == <<"E", "c", "c", "h", "i">>
BoysLove == <<"B", "o", "y", "s", " ", "L", "o", "v", "e">>
GirlsLove == <<"G", "i", "r", "l", "s", " ", "L", "o", "v", "e">>
Erotica == <<"E", "r", "o", "t", "i", "c", "a">>
Hentai == <<"H", "e", "n", "t", "a", "i">>
Action == <<"A", "c", "t", "i", "o", "n">>
Comedy == <<"C", "o", "m", "e", "d", "y">>

GENEROS_FILTRADOS == <<Ecchi, BoysLove, GirlsLove, Erotica, Hentai>>

\* `x in GENEROS_FILTRADOS`
Denylisted(x) == \E i \in DOMAIN GENEROS_FILTRADOS : GENEROS_FILTRADOS[i] = x

----------------------------------------------------------------------------
(* ast.literal_eval on the cells of the model: brackets, commas, quoted    *)
(* strings (single, double, triple-quoted), names and blanks.  The cells   *)
(* hold no digit, backslash, parenthesis, keyword or string prefix.        *)

Tok(t, s) == [t |-> t, s |-> s]

FindTriple(s, i, c) ==
    LET J == {j \in i..(Len(s) - 2) : s[j] = c /\ s[j + 1] = c /\ s[j + 2] = c}
    IN IF J = {} THEN 0 ELSE Min(J)

\* The index after the run of letters that starts at i.
NameEnd(s, i) ==
    Min({j \in (i + 1)..(Len(s) + 1) : j > Len(s) \/ s[j] \notin Letters})

\* The tokens of s from index i on; a lexical error ends them with ERR.
RECURSIVE Tokenize(_, _)
Tokenize(s, i) ==
    IF i > Len(s) THEN <<>>
    ELSE LET c == s[i]
         IN CASE c \in {" ", "\t"} -> Tokenize(s, i + 1)
              [] c = "[" -> <<Tok("LB", <<>>)>> \o Tokenize(s, i + 1)
              [] c = "]" -> <<Tok("RB", <<>>)>> \o Tokenize(s, i + 1)
              [] c = "," -> <<Tok("COMMA", <<>>)>> \o Tokenize(s, i + 1)
              [] c \in QuoteChars ->
                    IF i + 2 <= Len(s) /\ s[i + 1] = c /\ s[i + 2] = c
                    THEN LET j == FindTriple(s, i + 3, c)
                         IN IF j = 0 THEN <<Tok("ERR", <<>>)>>
                            ELSE <<Tok("STR", SubSeq(s, i + 3, j - 1))>>
                                     \o Tokenize(s, j + 3)
                    ELSE LET j == FindChar(s, i + 1, c)
                         IN IF j = 0 THEN <<Tok("ERR", <<>>)>>
                            ELSE <<Tok("STR", SubSeq(s, i + 1, j - 1))>>
                                     \o Tokenize(s, j + 1)
              [] c \in Letters ->
                    LET j == NameEnd(s, i)
                    IN <<Tok("NAME", SubSeq(s, i, j - 1))>> \o Tokenize(s, j)
              [] OTHER -> <<Tok("ERR", <<>>)>>

\* The kind of token i, END past the last.
Tk(t, i) == IF i \in DOMAIN t THEN t[i].t ELSE "END"

\* A list element that is itself a list: not hashable, not a str.
Unhashable == <<"list">>

\* kind: "str" (with str), "list" (with items), "bad": a Name or a
\* Subscript somewhere inside, which literal_eval refuses with ValueError.
Node(pos, kind, str, items) ==
    [ok |-> TRUE, pos |-> pos, kind |-> kind, str |-> str, items |-> items]

NoNode == [ok |-> FALSE, pos |-> 0, kind |-> "bad", str |-> <<>>, items |-> <<>>]

NoItems == [ok |-> FALSE, pos |-> 0, bad |-> FALSE, items |-> <<>>, commas |-> 0]

\* Adjacent string literals are one string.
RECURSIVE ParseStrs(_, _, _)
ParseStrs(t, i, acc) ==
    IF Tk(t, i) = "STR" THEN ParseStrs(t, i + 1, acc \o t[i].s)
    ELSE Node(i, "str", acc, <<>>)

RECURSIVE ParseExpr(_, _)
RECURSIVE ParseItems(_, _)
RECURSIVE ParseTrailers(_, _)

ParseAtom(t, i) ==
    CASE Tk(t, i) = "NAME" -> Node(i + 1, "bad", <<>>, <<>>)
      [] Tk(t, i) = "STR" -> ParseStrs(t, i, <<>>)
      [] Tk(t, i) = "LB" ->
            IF Tk(t, i + 1) = "RB" THEN Node(i + 2, "list", <<>>, <<>>)
            ELSE LET r == ParseItems(t, i + 1)
                 IN IF ~r.ok \/ Tk(t, r.pos) # "RB" THEN NoNode
                    ELSE Node(r.pos + 1, IF r.bad THEN "bad" ELSE "list",
                              <<>>, r.items)
      [] OTHER -> NoNode

\* expression (',' expression)* [',']
ParseItems(t, i) ==
    LET r == ParseExpr(t, i)
        item == IF r.kind = "str" THEN r.str ELSE Unhashable
    IN IF ~r.ok THEN NoItems
       ELSE IF Tk(t, r.pos) # "COMMA"
       THEN [ok |-> TRUE, pos |-> r.pos, bad |-> r.kind = "bad",
             items |-> <<item>>, commas |-> 0]
       ELSE IF Tk(t, r.pos + 1) \in {"RB", "END"}
       THEN [ok |-> TRUE, pos |-> r.pos + 1, bad |-> r.kind = "bad",
             items |-> <<item>>, commas |-> 1]
       ELSE LET q == ParseItems(t, r.pos + 1)
            IN IF ~q.ok THEN NoItems
               ELSE [ok |-> TRUE, pos |-> q.pos,
                     bad |-> r.kind = "bad" \/ q.bad,
                     items |-> <<item>> \o q.items,
                     commas |-> q.commas + 1]

\* atom followed by subscripts: x[...] is a Subscript node.
ParseTrailers(t, r) ==
    IF r.ok /\ Tk(t, r.pos) = "LB"
    THEN LET q == ParseItems(t, r.pos + 1)
         IN IF ~q.ok \/ Tk(t, q.pos) # "RB" THEN NoNode
            ELSE ParseTrailers(t, Node(q.pos + 1, "bad", <<>>, <<>>))
    ELSE r

ParseExpr(t, i) == ParseTrailers(t, ParseAtom(t, i))

\* ast.literal_eval(s): kind "error" is ValueError or SyntaxError.
literal_eval(s) ==
    LET t == Tokenize(LStrip(s, {" ", "\t"}), 1)
        r == ParseItems(t, 1)
        e == ParseExpr(t, 1)
        Err == [kind |-> "error", items |-> <<>>]
    IN IF t = <<>> \/ t[Len(t)].t = "ERR" THEN Err
       ELSE IF ~r.ok \/ r.pos # Len(t) + 1 \/ r.bad THEN Err
       ELSE IF r.commas > 0 THEN [kind |-> "tuple", items |-> <<>>]
       ELSE [kind |-> e.kind, items |-> e.items]

----------------------------------------------------------------------------
(* processar_generos_onehot, lines 31-54: one cell to its label sequence *)

\* A cell of a DataFrame: a number n/d (an int has d = 1), a str, or a
\* missing value.
Num(n) == [k |-> "num", n |-> n, d |-> 1, s |-> <<>>]
Txt(s) == [k |-> "str", n |-> 0, d |-> 1, s |-> s]
NaN == [k |-> "nan", n |-> 0, d |-> 1, s |-> <<>>]

\* [g for g in genres_list if g not in GENEROS_FILTRADOS]
genres_filtrados(genres_list) ==
    SelectSeq(genres_list, LAMBDA g : ~Denylisted(g))

\* [g.strip().strip("'\"") for g in clean_str.split(',') if g.strip()]
manual_genres_list(genres_str) ==
    LET clean_str == Strip(genres_str, {"[", "]", "'", "\""})
        pieces == SelectSeq(Split(clean_str, ","),
                            LAMBDA g : Strip(g, Whitespace) # <<>>)
    IN [i \in DOMAIN pieces |-> Strip(Strip(pieces[i], Whitespace), QuoteChars)]

\* genres_list of one cell: the parsed labels before the denylist is
\* applied; a non-list literal and a non-string cell give no label.
genres_list(cell) ==
    IF cell.k # "str" THEN <<>>
    ELSE LET ev == literal_eval(cell.s)
         IN CASE ev.kind = "error" -> manual_genres_list(cell.s)
              [] ev.kind = "list" -> ev.items
              [] OTHER -> <<>>

\* The body of the loop: what is appended to generos_processados.
processar_celula(cell) == genres_filtrados(genres_list(cell))

----------------------------------------------------------------------------
(* Tables *)

ColAnimeID == <<"a", "n", "i", "m", "e", "I", "D">>
ColTitle == <<"t", "i", "t", "l", "e">>
ColYear == <<"y", "e", "a", "r">>

IdCols == <<ColAnimeID, ColTitle, ColYear>>

\* A DataFrame with the default RangeIndex: column names and rows of cells.
Table(cols, rows) == [cols |-> cols, rows |-> rows]

\* The indexes of the columns of t whose name is n.
ColsNamed(t, n) == {j \in DOMAIN t.cols : t.cols[j] = n}

\* The subsequence of s at the indexes that satisfy Keep, order preserved.
KeepIdx(s, Keep(_)) ==
    LET F[i \in 0..Len(s)] ==
            IF i = 0 THEN <<>>
            ELSE IF Keep(i) THEN Append(F[i - 1], s[i]) ELSE F[i - 1]
    IN F[Len(s)]

\* DataFrame.drop(columns=names): every column with one of the names goes.
DropCols(df, names) ==
    LET keep(j) == df.cols[j] \notin names
    IN Table(KeepIdx(df.cols, keep),
             [i \in DOMAIN df.rows |-> KeepIdx(df.rows[i], keep)])

----------------------------------------------------------------------------
(* filtrar_generos_adultos, lines 105-119 *)

filtrar_sem_remover(df_generos) == df_generos

filtrar_so_a_primeira(df_generos) ==
    LET D == {j \in DOMAIN df_generos.cols : Denylisted(df_generos.cols[j])}
    IN IF D = {} THEN df_generos
       ELSE Table(KeepIdx(df_generos.cols, LAMBDA j : j # Min(D)),
                  [i \in DOMAIN df_generos.rows |->
                      KeepIdx(df_generos.rows[i], LAMBDA j : j # Min(D))])

filtrar_generos_adultos(df_generos) ==
    LET colunas_para_remover ==
            SelectSeq(df_generos.cols, LAMBDA col : Denylisted(col))
    IN IF colunas_para_remover # <<>>
       THEN DropCols(df_generos, Range(colunas_para_remover))
       ELSE df_generos

----------------------------------------------------------------------------
(* processar_generos_onehot, lines 26-68: the matrix *)

\* A catalog record; df_animes is the sequence of them, record i at index
\* label i - 1 (read_csv's RangeIndex).
Record(id, title, year, genres) ==
    [animeID |-> id, title |-> title, year |-> year, genres |-> genres]

\* df_animes[df_animes['genres'].notna()]: the index labels that stay.
clean_index(df_animes) ==
    KeepIdx([i \in DOMAIN df_animes |-> i - 1],
            LAMBDA i : df_animes[i].genres.k # "nan")

\* generos_processados: one label sequence per row of df_clean, whose
\* index labels are idx.
generos_processados(df_animes, idx) ==
    [i \in DOMAIN idx |-> processar_celula(df_animes[idx[i] + 1].genres)]

mlb_classes_sem_ordenar(y) ==
    LET F[i \in 0..Len(y)] ==
            IF i = 0 THEN <<>>
            ELSE F[i - 1] \o SelectSeq(y[i], LAMBDA g : g \notin Range(F[i - 1]))
    IN F[Len(y)]

\* MultiLabelBinarizer.classes_: sorted(set(chain.from_iterable(y))).
mlb_classes(y) == Sorted(UNION {Range(y[i]) : i \in DOMAIN y})

\* MultiLabelBinarizer.fit_transform: one 0/1 row per label sequence.
mlb_transform(y, classes) ==
    [i \in DOMAIN y |->
        [j \in DOMAIN classes |->
            IF classes[j] \in Range(y[i]) THEN Num(1) ELSE Num(0)]]

\* A block of columns with its index labels.
Frame(index, cols, rows) == [index |-> index, cols |-> cols, rows |-> rows]

\* reset_index(drop=True)
reset_index(f) == Frame([i \in DOMAIN f.index |-> i - 1], f.cols, f.rows)

\* The row of f at index label l, NaN cells when f has no such label.
RowAt(f, l) ==
    IF \E i \in DOMAIN f.index : f.index[i] = l
    THEN f.rows[CHOOSE i \in DOMAIN f.index : f.index[i] = l]
    ELSE [j \in DOMAIN f.cols |-> NaN]

\* The labels of S in ascending order.
RECURSIVE SortedInts(_)
SortedInts(S) ==
    IF S = {} THEN <<>> ELSE <<Min(S)>> \o SortedInts(S \ {Min(S)})

\* pd.concat([a, b], axis=1): rows are matched by index label; with equal
\* indexes that is row by row, otherwise the union of the labels.
concat(a, b) ==
    LET labels == IF a.index = b.index THEN a.index
                  ELSE SortedInts(Range(a.index) \cup Range(b.index))
    IN Table(a.cols \o b.cols,
             [i \in DOMAIN labels |-> RowAt(a, labels[i]) \o RowAt(b, labels[i])])

\* df_clean[['animeID', 'title', 'year']], with df_clean's index.
id_block(df_animes, idx) ==
    Frame(idx, IdCols,
          [i \in DOMAIN idx |->
              << df_animes[idx[i] + 1].animeID,
                 df_animes[idx[i] + 1].title,
                 df_animes[idx[i] + 1].year >>])

\* df_onehot: DataFrame(generos_onehot, columns=mlb.classes_, index=df_clean.index)
onehot_frame(idx, y, classes) == Frame(idx, classes, mlb_transform(y, classes))

df_onehot(idx, y) == onehot_frame(idx, y, mlb_classes(y))

\* The set() of the binarizer hashes every label: a list among them raises.
tem_unhashable(y) == \E i \in DOMAIN y : Unhashable \in Range(y[i])

df_resultado_sem_reset(df_clean_ids, onehot) ==
    concat(df_clean_ids, reset_index(onehot))

\* df_resultado, lines 65-68.
df_resultado(df_clean_ids, onehot) ==
    concat(reset_index(df_clean_ids), reset_index(onehot))

NoTable == Table(<<>>, <<>>)

\* Lines 59-68 for the rows idx and their label sequences y: the matrix,
\* or the TypeError of the binarizer.
codificar(df_animes, idx, y) ==
    IF tem_unhashable(y) THEN [kind |-> "TypeError", table |-> NoTable]
    ELSE [kind |-> "ok",
          table |-> df_resultado(id_block(df_animes, idx), df_onehot(idx, y))]

\* Lines 26-68: the matrix of a catalog.
matriz_onehot(df_animes) ==
    codificar(df_animes, clean_index(df_animes),
              generos_processados(df_animes, clean_index(df_animes)))

----------------------------------------------------------------------------
(* The cache file: DataFrame.to_csv(index=False) and pd.read_csv *)

DigitChar(d) == Ascii[10 + d]

DigitValue(c) == Code(c) - 10

\* str(n) for n >= 0
RECURSIVE IntToText(_)
IntToText(n) ==
    IF n < 10 THEN <<DigitChar(n)>>
    ELSE IntToText(n \div 10) \o <<DigitChar(n % 10)>>

\* int(s) for a non-empty run of digits
RECURSIVE TextToInt(_)
TextToInt(s) ==
    IF Len(s) = 1 THEN DigitValue(s[1])
    ELSE 10 * TextToInt(SubSeq(s, 1, Len(s) - 1)) + DigitValue(s[Len(s)])

\* The text of one cell: a whole number in decimal, a str as it is, a
\* missing value as the empty field.
CellText(c) ==
    CASE c.k = "num" -> IntToText(c.n)
      [] c.k = "str" -> c.s
      [] OTHER -> <<>>

NoFile == [exists |-> FALSE, header |-> <<>>, lines |-> <<>>]

\* A header row of column names, then one line of fields per row.
to_csv(df) ==
    [exists |-> TRUE,
     header |-> df.cols,
     lines |-> [i \in DOMAIN df.rows |->
                   [j \in DOMAIN df.rows[i] |-> CellText(df.rows[i][j])]]]

\* read_csv's name of header field j: an empty field is "Unnamed: <j-1>",
\* a repeated name gets ".<k>" at its k-th repetition.
Unnamed(j) ==
    <<"U", "n", "n", "a", "m", "e", "d", ":", " ">> \o IntToText(j - 1)

HeaderName(header, j) ==
    LET name == IF header[j] = <<>> THEN Unnamed(j) ELSE header[j]
        k == Cardinality({i \in 1..(j - 1) : header[i] = header[j]})
    IN IF k = 0 \/ header[j] = <<>> THEN name
       ELSE name \o <<".">> \o IntToText(k)

IsNumberText(s) == s # <<>> /\ \A i \in DOMAIN s : s[i] \in Digits

\* Fields read_csv takes for a missing value (those the model can spell).
NaTexts ==
    { <<>>, <<"N", "A">>, <<"N", "a", "N">>, <<"n", "a", "n">>,
      <<"n", "u", "l", "l">>, <<"N", "U", "L", "L">>,
      <<"N", "o", "n", "e">>, <<"N", "/", "A">>, <<"n", "/", "a">> }

\* A column is numeric when each of its fields is a number or missing.
pd_read_csv(f) ==
    LET numeric(j) ==
            \A i \in DOMAIN f.lines :
                f.lines[i][j] \in NaTexts \/ IsNumberText(f.lines[i][j])
        cell(i, j) ==
            LET s == f.lines[i][j]
            IN IF s \in NaTexts THEN NaN
               ELSE IF numeric(j) THEN Num(TextToInt(s))
               ELSE Txt(s)
    IN Table([j \in DOMAIN f.header |-> HeaderName(f.header, j)],
             [i \in DOMAIN f.lines |->
                 [j \in DOMAIN f.header |-> cell(i, j)]])

----------------------------------------------------------------------------
(* Paths and directories: os.path.dirname, os.makedirs(exist_ok=True) *)

\* posixpath.split
PathSplit(p) ==
    LET S == {j \in DOMAIN p : p[j] = "/"}
        i == IF S = {} THEN 0 ELSE CHOOSE j \in S : \A l \in S : l <= j
        head == SubSeq(p, 1, i)
        tail == SubSeq(p, i + 1, Len(p))
    IN IF head # <<>> /\ \E j \in DOMAIN head : head[j] # "/"
       THEN <<RStrip(head, {"/"}), tail>>
       ELSE <<head, tail>>

dirname(p) == PathSplit(p)[1]

\* os.makedirs(name, exist_ok=True) with the directories ds: the missing
\* ancestors first, then mkdir(name).  mkdir('') raises FileNotFoundError
\* and '' is no directory, so the error is raised again.
RECURSIVE makedirs(_, _)
makedirs(ds, name) ==
    LET s1 == PathSplit(name)
        s2 == IF s1[2] = <<>> THEN PathSplit(s1[1]) ELSE s1
        up == IF s2[1] # <<>> /\ s2[2] # <<>> /\ s2[1] \notin ds
              THEN makedirs(ds, s2[1])
              ELSE [ok |-> TRUE, dirs |-> ds]
    IN IF ~up.ok THEN up
       ELSE IF name = <<>> THEN [ok |-> FALSE, dirs |-> up.dirs]
       ELSE [ok |-> TRUE, dirs |-> up.dirs \cup {name}]

----------------------------------------------------------------------------
(* processar_generos_onehot, lines 16-80, and the loader, lines 83-102 *)

\* The outcome of a call: kind "ok" with the table returned, or the
\* exception raised.
Outcome(op, branch, kind, table) ==
    [op |-> op, branch |-> branch, kind |-> kind, table |-> table]

NoCall == Outcome("none", "none", "none", NoTable)

\* Lines 74-80 for the matrix m and the outcome mk of os.makedirs: what is
\* returned or raised, the directories and the file afterwards.
salvar(m, salvar_arquivo, mk, ds, arq) ==
    IF m.kind # "ok"
    THEN [kind |-> m.kind, table |-> NoTable, dirs |-> ds, arquivo |-> arq]
    ELSE IF ~salvar_arquivo
    THEN [kind |-> "ok", table |-> m.table, dirs |-> ds, arquivo |-> arq]
    ELSE IF ~mk.ok
    THEN [kind |-> "FileNotFoundError", table |-> NoTable,
          dirs |-> mk.dirs, arquivo |-> arq]
    ELSE [kind |-> "ok", table |-> m.table, dirs |-> mk.dirs,
          arquivo |-> to_csv(m.table)]

\* What processar_generos_onehot returns or raises, and the directories and
\* the file at caminho_arquivo afterwards.
processar_generos_onehot(df_animes, salvar_arquivo, caminho_arquivo, ds, arq) ==
    salvar(matriz_onehot(df_animes), salvar_arquivo,
           makedirs(ds, dirname(caminho_arquivo)), ds, arq)

\* The loader's result from the outcome r of processar_generos_onehot.
calculado(r) ==
    [ret |-> Outcome("carregar", "compute", r.kind, r.table),
     dirs |-> r.dirs, arquivo |-> r.arquivo]

\* The loader's result from the table read from the cache and filtered.
carregado(df_generos, ds, arq) ==
    [ret |-> Outcome("carregar", "cache", "ok", df_generos),
     dirs |-> ds, arquivo |-> arq]

carregar_regravando(df_animes, caminho, ds, arq) ==
    IF arq.exists
    THEN carregado(filtrar_generos_adultos(pd_read_csv(arq)), ds,
                   to_csv(filtrar_generos_adultos(pd_read_csv(arq))))
    ELSE calculado(processar_generos_onehot(df_animes, TRUE, caminho, ds, arq))

\* carregar_ou_processar_generos: the outcome, the directories and the file
\* at caminho_onehot afterwards.
carregar_ou_processar_generos(df_animes, caminho, ds, arq) ==
    IF arq.exists
    THEN carregado(filtrar_generos_adultos(pd_read_csv(arq)), ds, arq)
    ELSE calculado(processar_generos_onehot(df_animes, TRUE, caminho, ds, arq))

----------------------------------------------------------------------------
(* obter_generos_por_ano, lines 131-150 *)

YEAR_MIN == 1970
YEAR_MAX == 2024

RECURSIVE Gcd(_, _)
Gcd(a, b) == IF b = 0 THEN a ELSE Gcd(b, a % b)

\* The number n/d, d > 0, in lowest terms.
Frac(n, d) ==
    LET g == Gcd(n, d)
    IN [k |-> "num", n |-> n \div g, d |-> d \div g, s |-> <<>>]

NumLess(a, b) == a.n * b.d < b.n * a.d
NumLeq(a, b) == a.n * b.d <= b.n * a.d

RECURSIVE SumN(_)
SumN(cells) == IF cells = <<>> THEN 0 ELSE Head(cells).n + SumN(Tail(cells))

\* Series.mean() of whole-number cells: missing cells are skipped.
mean(cells) ==
    LET vals == SelectSeq(cells, LAMBDA c : c.k = "num")
    IN IF vals = <<>> THEN NaN ELSE Frac(SumN(vals), Len(vals))

\* The numbers of S in ascending order.
RECURSIVE SortedNums(_)
SortedNums(S) ==
    IF S = {} THEN <<>>
    ELSE LET m == CHOOSE x \in S : \A y \in S : NumLeq(x, y)
         IN <<m>> \o SortedNums(S \ {m})

ano_valido_exclusivo(y) == NumLess(Num(YEAR_MIN), y) /\ NumLess(y, Num(YEAR_MAX))

\* (df['year'] >= 1970) & (df['year'] <= 2024)
ano_valido(y) == NumLeq(Num(YEAR_MIN), y) /\ NumLeq(y, Num(YEAR_MAX))

soma_do_grupo(rows, j) == Num(SumN([i \in DOMAIN rows |-> rows[i][j]]))

\* groupby('year')[col].mean() for one group: the rows of the group.
media_do_grupo(rows, j) == mean([i \in DOMAIN rows |-> rows[i][j]])

obter_generos_por_ano(df_generos0) ==
    LET df_generos == filtrar_generos_adultos(df_generos0)
        colunas_generos ==
            KeepIdx([j \in DOMAIN df_generos.cols |-> j],
                    LAMBDA j : df_generos.cols[j] \notin Range(IdCols))
        ys == ColsNamed(df_generos, ColYear)
    IN IF Cardinality(ys) # 1
       THEN Outcome("por_ano", "none", "KeyError", NoTable)
       ELSE LET y == CHOOSE j \in ys : TRUE
                notna == SelectSeq(df_generos.rows, LAMBDA r : r[y].k # "nan")
            IN IF \E i \in DOMAIN notna : notna[i][y].k # "num"
               THEN Outcome("por_ano", "none", "TypeError", NoTable)
               ELSE LET df_clean == SelectSeq(notna, LAMBDA r : ano_valido(r[y]))
                        anos == SortedNums({df_clean[i][y] : i \in DOMAIN df_clean})
                        grupo(a) == SelectSeq(df_clean, LAMBDA r : r[y] = a)
                    IN Outcome("por_ano", "none", "ok",
                         Table(<<ColYear>> \o
                                 [c \in DOMAIN colunas_generos |->
                                     df_generos.cols[colunas_generos[c]]],
                               [i \in DOMAIN anos |->
                                  <<anos[i]>> \o
                                  [c \in DOMAIN colunas_generos |->
                                      media_do_grupo(grupo(anos[i]),
                                                     colunas_generos[c])]]))

----------------------------------------------------------------------------
(* Bounds *)

\* The longest catalog.
MaxRecords == 2

\* The longest genres cell of the exhaustive parser inputs.
MaxCellLen == 3

\* The most rows of an input table of the filter and the aggregation.
MaxRows == 2

----------------------------------------------------------------------------
(* The loader and the aggregation over a catalog, a cache path and a file *)

Titulo(i) == Txt(<<"T">> \o IntToText(i))

\* The genres cells of the catalogs: a literal with a denylisted label, a
\* malformed cell with one, a literal with an empty label, a missing cell
\* and a nested list.
SysCells ==
    { Txt(<<"[", "'", "A", "c", "t", "i", "o", "n", "'", ",", " ", "'", "H", "e", "n", "t", "a", "i", "'", "]">>),
      Txt(<<"[", "H", "e", "n", "t", "a", "i", ",", " ", "C", "o", "m", "e", "d", "y", "]">>),
      Txt(<<"[", "'", "'", "]">>),
      NaN,
      Txt(<<"[", "[", "]", "]">>) }

SysYear(i) == IF i = 2 THEN Num(1969) ELSE Num(2000)

SysRecord(i, g) == Record(Num(i), Titulo(i), SysYear(i), g)

Catalogs ==
    UNION { {[i \in 1..n |-> SysRecord(i, f[i])] : f \in [1..n -> SysCells]}
            : n \in 0..MaxRecords }

\* Cache paths: with a parent directory, with two, and with none.
Paths == { <<"d", "/", "g">>, <<"d", "/", "e", "/", "g">>, <<"g">> }

\* The directories above a path.
RECURSIVE Ancestors(_)
Ancestors(p) ==
    IF dirname(p) = <<>> THEN {} ELSE {dirname(p)} \cup Ancestors(dirname(p))

DirStates == { {}, {<<"d">>}, {<<"d">>, <<"d", "/", "e">>} }

\* Matrices persisted by an earlier run: one from before the denylist, with
\* denylisted columns, and one without.
StaleRow(i, cells) == <<Num(i), Titulo(i), Num(2000)>> \o cells

StaleMatrices ==
    { Table(IdCols \o <<Action, Hentai>>,
            << StaleRow(1, <<Num(1), Num(0)>>), StaleRow(2, <<Num(1), Num(1)>>) >>),
      Table(IdCols \o <<Comedy, Ecchi, Hentai>>,
            << StaleRow(1, <<Num(0), Num(1), Num(1)>>) >>),
      Table(IdCols \o <<Comedy>>,
            << StaleRow(1, <<Num(1)>>), StaleRow(2, <<Num(0)>>) >>) }

NoDf == [set |-> FALSE, branch |-> "none", table |-> NoTable]

Init ==
    /\ catalog \in Catalogs
    /\ caminho_onehot \in Paths
    /\ \/ /\ arquivo = NoFile
          /\ matriz = NoTable
          /\ origem = "none"
          /\ dirs \in DirStates
       \/ /\ matriz \in StaleMatrices
          /\ arquivo = to_csv(matriz)
          /\ origem = "stale"
          /\ dirs \in {ds \in DirStates : Ancestors(caminho_onehot) \subseteq ds}
    /\ retornado = NoDf
    /\ ret = NoCall
    /\ editado = FALSE
    /\ arg = <<>>
    /\ res = <<>>
    /\ pc = "sys"

\* The state after a loader call with result r.
Chamada(r) ==
    /\ ret' = r.ret
    /\ dirs' = r.dirs
    /\ arquivo' = r.arquivo
    /\ matriz' = IF r.arquivo # arquivo /\ r.ret.branch = "compute"
                 THEN r.ret.table ELSE matriz
    /\ origem' = IF r.arquivo # arquivo /\ r.ret.branch = "compute"
                 THEN "compute" ELSE origem
    /\ retornado' = IF r.ret.kind = "ok"
                    THEN [set |-> TRUE, branch |-> r.ret.branch,
                          table |-> r.ret.table]
                    ELSE retornado

\* df_generos = carregar_ou_processar_generos(caminho_dataset, caminho_onehot)
Carregar ==
    /\ pc = "sys"
    /\ Chamada(carregar_ou_processar_generos(catalog, caminho_onehot, dirs, arquivo))
    /\ editado' = FALSE
    /\ UNCHANGED <<catalog, caminho_onehot>>
    /\ UNCHANGED pureVars

\* obter_generos_por_ano(df_generos) on the table the loader returned
PorAno ==
    /\ pc = "sys"
    /\ retornado.set
    /\ ret' = obter_generos_por_ano(retornado.table)
    /\ UNCHANGED <<catalog, caminho_onehot, dirs, arquivo, matriz, origem,
                   retornado, editado>>
    /\ UNCHANGED pureVars

\* The catalog file changes between calls: one cell is rewritten, a record
\* is appended, or the last record is removed.
EditarCatalogo ==
    /\ pc = "sys"
    /\ \/ \E i \in DOMAIN catalog, g \in SysCells :
             /\ g # catalog[i].genres
             /\ catalog' = [catalog EXCEPT ![i].genres = g]
       \/ \E g \in SysCells :
             /\ Len(catalog) < MaxRecords
             /\ catalog' = Append(catalog, SysRecord(Len(catalog) + 1, g))
       \/ /\ catalog # <<>>
          /\ catalog' = SubSeq(catalog, 1, Len(catalog) - 1)
    /\ editado' = TRUE
    /\ UNCHANGED <<caminho_onehot, dirs, arquivo, matriz, origem, retornado, ret>>
    /\ UNCHANGED pureVars

Next == Carregar \/ PorAno \/ EditarCatalogo

Spec == Init /\ [][Next]_vars

----------------------------------------------------------------------------
(* Claims on the loader *)

NoDenylistedColumn(cols) == \A j \in DOMAIN cols : ~Denylisted(cols[j])

\* C1: no table returned by the loader or by the aggregation has a column
\* named exactly after a denylisted label, whatever the catalog and the
\* cache file found (a stale one with denylisted columns included), and no
\* cache file written by the compute branch has such a column.
C1_NoDenylistedColumn ==
    /\ ret.kind = "ok" => NoDenylistedColumn(ret.table.cols)
    /\ retornado.set => NoDenylistedColumn(retornado.table.cols)
    /\ origem = "compute" =>
          /\ NoDenylistedColumn(arquivo.header)
          /\ NoDenylistedColumn(pd_read_csv(arquivo).cols)

\* A stale cache with denylisted columns has been loaded, and the table
\* returned has been aggregated.
C1_StaleCacheServed ==
    /\ origem = "stale"
    /\ ~NoDenylistedColumn(arquivo.header)
    /\ retornado.set
    /\ ret.op = "por_ano"
    /\ ret.kind = "ok"

\* C2: with no file at the cache path, the loader completes for every cache
\* path (parent directory present, missing, or no directory component),
\* the parent directories exist afterwards and the file holds the matrix
\* returned.  (A catalog the encoder refuses is set aside.)
C2_ComputeBranchPersists ==
    (ret.op = "carregar" /\ ret.branch = "compute" /\ ret.kind # "TypeError") =>
        /\ ret.kind = "ok"
        /\ arquivo.exists
        /\ arquivo = to_csv(ret.table)
        /\ Ancestors(caminho_onehot) \subseteq dirs

\* C3: a loader call that finds the cache returns the persisted matrix with
\* the filter applied.
C3_RoundTrip ==
    (ret.op = "carregar" /\ ret.branch = "cache") =>
        ret.table = filtrar_generos_adultos(matriz)

\* C10: once the cache file exists its contents never change, and every
\* call that finds it returns the same table, also after the catalog has
\* changed.
C10_CacheFileFrozen ==
    [][arquivo.exists =>
          /\ arquivo' = arquivo
          /\ (retornado.branch = "cache" /\ retornado'.branch = "cache") =>
                retornado'.table = retornado.table]_vars

\* The file was computed from an earlier catalog, the catalog has changed
\* since, and the last call, made with the changed catalog, found the cache.
C10_ServedAfterCatalogChange ==
    /\ origem = "compute"
    /\ ret.op = "carregar"
    /\ ret.branch = "cache"
    /\ ~editado
    /\ matriz_onehot(catalog).kind = "ok"
    /\ matriz_onehot(catalog).table # matriz

----------------------------------------------------------------------------
(* The pure functions, each applied to inputs drawn from bounded sets *)

NoSys ==
    /\ catalog = <<>>
    /\ caminho_onehot = <<>>
    /\ dirs = {}
    /\ arquivo = NoFile
    /\ matriz = NoTable
    /\ origem = "none"
    /\ retornado = NoDf
    /\ ret = NoCall
    /\ editado = FALSE

(* The parser, lines 31-54 *)

Alphabet == {"[", "]", "'", "\"", ",", " ", "A", "H"}

CuratedCells ==
    { <<"[", "A", "c", "t", "i", "o", "n", ",", " ", "C", "o", "m", "e", "d", "y", "]">>,
      <<"[", "'", "A", "c", "t", "i", "o", "n", "'", ",", " ", "'", "H", "e", "n", "t", "a", "i", "'", "]">>,
      <<"[", "A", "c", "t", "i", "o", "n", ",", " ", "'", "'", ",", " ", "C", "o", "m", "e", "d", "y", "]">>,
      <<"[", "H", "e", "n", "t", "a", "i", ",", " ", "A", "c", "t", "i", "o", "n", "]">>,
      <<"B", "o", "y", "s", " ", "L", "o", "v", "e", ",", " ", "'", "C", "o", "m", "e", "d", "y", "'">> }

ParserCells ==
    UNION {[1..n -> Alphabet] : n \in 0..MaxCellLen} \cup CuratedCells

InitParser ==
    /\ NoSys
    /\ arg \in ParserCells
    /\ res = <<>>
    /\ pc = "cell"

ProcessarCelula ==
    /\ pc = "cell"
    /\ res' = processar_celula(Txt(arg))
    /\ pc' = "labels"
    /\ UNCHANGED <<arg>>
    /\ UNCHANGED sysVars

NextParser == ProcessarCelula

SpecParser == InitParser /\ [][NextParser]_vars

\* C8: a string cell on which the structured parse fails yields the manual
\* fallback sequence, which holds no empty label.
C8_FallbackNoEmptyLabel ==
    (pc = "labels" /\ literal_eval(arg).kind = "error") =>
        \A i \in DOMAIN res : res[i] # <<>>

(* The encoder, lines 26-68 *)

EncCells ==
    { NaN,
      Num(3),
      Txt(<<"[", "'", "A", "c", "t", "i", "o", "n", "'", ",", " ", "'", "H", "e", "n", "t", "a", "i", "'", "]">>),
      Txt(<<"[", "A", "c", "t", "i", "o", "n", ",", " ", "C", "o", "m", "e", "d", "y", "]">>),
      Txt(<<"[", "'", "C", "o", "m", "e", "d", "y", "'", ",", " ", "'", "A", "c", "t", "i", "o", "n", "'", "]">>),
      Txt(<<"[", "]">>),
      Txt(<<"[", "'", "H", "e", "n", "t", "a", "i", "'", "]">>),
      Txt(<<"[", "[", "]", "]">>),
      Txt(<<"'", "A", "c", "t", "i", "o", "n", "'">>) }

EncYears == {NaN, Num(2000)}

EncCatalogs ==
    UNION { {[i \in 1..n |-> Record(Num(i), Titulo(i), f[i][1], f[i][2])]
                : f \in [1..n -> EncYears \X EncCells]}
            : n \in 0..MaxRecords }

InitEncoder ==
    /\ NoSys
    /\ arg \in EncCatalogs
    /\ res = <<>>
    /\ pc = "catalog"

ProcessarOnehot ==
    /\ pc = "catalog"
    /\ res' = processar_generos_onehot(arg, FALSE, <<>>, {}, NoFile)
    /\ pc' = "matrix"
    /\ UNCHANGED <<arg>>
    /\ UNCHANGED sysVars

NextEncoder == ProcessarOnehot

SpecEncoder == InitEncoder /\ [][NextEncoder]_vars

\* The records with a non-null genres field, in input order.
ComGeneros(df_animes) == SelectSeq(df_animes, LAMBDA r : r.genres.k # "nan")

\* C4: the matrix has one row per record with a non-null genres field and
\* 3 + |V| columns, V the set of the labels of the filtered sequences:
\* animeID, title, year, then the labels of V in lexicographic order.
C4_RowsAndColumns ==
    (pc = "matrix" /\ res.kind = "ok") =>
        LET R == ComGeneros(arg)
            V == UNION {Range(genres_filtrados(genres_list(R[i].genres)))
                           : i \in DOMAIN R}
            cols == res.table.cols
        IN /\ Len(res.table.rows) = Len(R)
           /\ \A i \in DOMAIN res.table.rows : Len(res.table.rows[i]) = Len(cols)
           /\ Len(cols) = 3 + Cardinality(V)
           /\ SubSeq(cols, 1, 3) = IdCols
           /\ {cols[j] : j \in 4..Len(cols)} = V
           /\ \A j \in 4..(Len(cols) - 1) : LexLess(cols[j], cols[j + 1])

\* A matrix of a record whose filtered sequence is empty and of a record
\* with two labels that the cell lists out of order.
C4_EmptySequenceAndTwoLabels ==
    /\ pc = "matrix"
    /\ res.kind = "ok"
    /\ Len(res.table.cols) = 5
    /\ \E i \in DOMAIN arg :
          /\ arg[i].genres.k = "str"
          /\ genres_list(arg[i].genres) # <<>>
          /\ genres_filtrados(genres_list(arg[i].genres)) = <<>>
    /\ \E i \in DOMAIN arg : genres_list(arg[i].genres) = <<Comedy, Action>>

\* C9: row i carries the animeID, title and year of the i-th record with a
\* non-null genres field, and its indicator for a label is 1 exactly when
\* the label is in that record's parsed sequence and not denylisted; a
\* label that is parsed and not denylisted has a column, a denylisted one
\* has none.
C9_RowAlignment ==
    (pc = "matrix" /\ res.kind = "ok") =>
        LET R == ComGeneros(arg)
            cols == res.table.cols
            rows == res.table.rows
        IN /\ Len(rows) = Len(R)
           /\ \A i \in DOMAIN R :
                 /\ SubSeq(rows[i], 1, 3) = <<R[i].animeID, R[i].title, R[i].year>>
                 /\ \A j \in 4..Len(cols) :
                       rows[i][j] =
                          IF /\ cols[j] \in Range(genres_list(R[i].genres))
                             /\ ~Denylisted(cols[j])
                          THEN Num(1) ELSE Num(0)
                 /\ \A L \in Range(genres_list(R[i].genres)) :
                       (\E j \in 4..Len(cols) : cols[j] = L) <=> ~Denylisted(L)

\* The first record has no genres, so the rows kept do not start at index
\* label 0, and a kept record lists Action and Hentai.
C9_GapInIndexAndDenylistedLabel ==
    /\ pc = "matrix"
    /\ res.kind = "ok"
    /\ Len(arg) >= 2
    /\ arg[1].genres.k = "nan"
    /\ genres_list(arg[2].genres) = <<Action, Hentai>>
    /\ res.table.cols = IdCols \o <<Action>>
    /\ res.table.rows = << <<arg[2].animeID, arg[2].title, arg[2].year, Num(1)>> >>

(* The filter, lines 105-119, and the aggregation, lines 131-150 *)

Layouts ==
    { <<>>, <<Action>>, <<Action, Comedy>>, <<Action, Hentai>>,
      <<Ecchi, Hentai>>, <<Hentai, Action>> }

YearChoices ==
    {NaN, Num(1969), Num(YEAR_MIN), Num(2000), Num(YEAR_MAX), Num(2025)}

\* The table of n rows with the years and indicator values f.
TableOf(layout, n, f) ==
    Table(IdCols \o layout,
          [i \in 1..n |-> <<Num(i), Titulo(i), f[i][1]>> \o f[i][2]])

InitTable ==
    /\ NoSys
    /\ \E layout \in Layouts, n \in 0..MaxRows :
          \E f \in [1..n -> YearChoices \X [DOMAIN layout -> {Num(0), Num(1)}]] :
             arg = TableOf(layout, n, f)
    /\ res = <<>>
    /\ pc = "table"

Filtrar ==
    /\ pc = "table"
    /\ res' = filtrar_generos_adultos(arg)
    /\ pc' = "filtered"
    /\ UNCHANGED <<arg>>
    /\ UNCHANGED sysVars

FiltrarDeNovo ==
    /\ pc = "filtered"
    /\ res' = <<res, filtrar_generos_adultos(res)>>
    /\ pc' = "refiltered"
    /\ UNCHANGED <<arg>>
    /\ UNCHANGED sysVars

Agregar ==
    /\ pc = "table"
    /\ res' = obter_generos_por_ano(arg)
    /\ pc' = "aggregated"
    /\ UNCHANGED <<arg>>
    /\ UNCHANGED sysVars

NextTable == Filtrar \/ FiltrarDeNovo \/ Agregar

SpecTable == InitTable /\ [][NextTable]_vars

\* The indexes of the columns of cols that satisfy Keep, in order.
Which(cols, Keep(_)) ==
    SelectSeq([j \in DOMAIN cols |-> j], LAMBDA j : Keep(cols[j]))

\* C5: the filtered table has no denylisted column, keeps every other
\* column with its values in the original order, is the input itself when
\* the input has no denylisted column, and filtering it again changes
\* nothing.
C5_FilterTable ==
    /\ pc = "filtered" =>
          LET K == Which(arg.cols, LAMBDA c : ~Denylisted(c))
          IN /\ NoDenylistedColumn(res.cols)
             /\ res.cols = [c \in DOMAIN K |-> arg.cols[K[c]]]
             /\ Len(res.rows) = Len(arg.rows)
             /\ \A i \in DOMAIN arg.rows :
                   res.rows[i] = [c \in DOMAIN K |-> arg.rows[i][K[c]]]
             /\ NoDenylistedColumn(arg.cols) => res = arg
    /\ pc = "refiltered" => res[2] = res[1]

\* A table with two denylisted columns and rows has been filtered twice.
C5_TwoDenylistedColumnsFiltered ==
    /\ pc = "refiltered"
    /\ arg.cols = IdCols \o <<Ecchi, Hentai>>
    /\ Len(arg.rows) = 2
    /\ res[1].cols = IdCols

\* The years of the input rows that are present and within the range.
AnosValidos(t) ==
    { t.rows[i][3].n : i \in { i \in DOMAIN t.rows :
                                  /\ t.rows[i][3].k = "num"
                                  /\ t.rows[i][3].n >= 1970
                                  /\ t.rows[i][3].n <= 2024 } }

\* C6: the aggregation returns exactly one row per distinct year y with
\* 1970 <= y <= 2024 of the input, in ascending order; a row without year
\* or with a year outside the range gives no row.
C6_YearsOfTheResult ==
    (pc = "aggregated" /\ res.kind = "ok") =>
        LET out == res.table.rows
        IN /\ \A i \in DOMAIN out : out[i][1].k = "num" /\ out[i][1].d = 1
           /\ {out[i][1].n : i \in DOMAIN out} = AnosValidos(arg)
           /\ Len(out) = Cardinality(AnosValidos(arg))
           /\ \A i \in 1..(Len(out) - 1) : out[i][1].n < out[i + 1][1].n
           /\ \A i \in DOMAIN out : out[i][1].n >= 1970 /\ out[i][1].n <= 2024

\* A row of year 2025 and a row of year 1970 went in; one row came out.
C6_BoundaryAndOutOfRange ==
    /\ pc = "aggregated"
    /\ res.kind = "ok"
    /\ Len(arg.rows) = 2
    /\ arg.rows[1][3] = Num(2025)
    /\ arg.rows[2][3] = Num(1970)
    /\ Len(res.table.rows) = 1
    /\ res.table.rows[1][1] = Num(1970)

\* The example of the specification: two records of year 2000.
ExampleTable ==
    Table(IdCols \o <<Action, Comedy>>,
          << <<Num(1), Titulo(1), Num(2000), Num(1), Num(0)>>,
             <<Num(2), Titulo(2), Num(2000), Num(0), Num(1)>> >>)

\* C7: for every year y of the result and every indicator column g that is
\* not denylisted, the value is the number of in-range rows of year y with
\* g = 1 over the number of in-range rows of year y, within [0, 1]; the
\* example gives 1/2 and 1/2.
C7_MeanPerYear ==
    (pc = "aggregated" /\ res.kind = "ok") =>
        LET G == Which(arg.cols,
                       LAMBDA c : c \notin Range(IdCols) /\ ~Denylisted(c))
            out == res.table
            DoAno(y) == {i \in DOMAIN arg.rows : arg.rows[i][3] = Num(y)}
            Com(y, j) == {i \in DoAno(y) : arg.rows[i][j] = Num(1)}
        IN /\ out.cols = <<ColYear>> \o [c \in DOMAIN G |-> arg.cols[G[c]]]
           /\ \A i \in DOMAIN out.rows :
                 /\ Len(out.rows[i]) = 1 + Len(G)
                 /\ \A c \in DOMAIN G :
                       LET v == out.rows[i][1 + c]
                           y == out.rows[i][1].n
                       IN /\ v.k = "num"
                          /\ v.n * Cardinality(DoAno(y)) =
                                v.d * Cardinality(Com(y, G[c]))
                          /\ 0 <= v.n /\ v.n <= v.d
           /\ arg = ExampleTable =>
                 out.rows = << <<Num(2000), Frac(1, 2), Frac(1, 2)>> >>

\* The example has been aggregated.
C7_ExampleAggregated ==
    /\ pc = "aggregated"
    /\ arg = ExampleTable
    /\ res.kind = "ok"

====
